---- MODULE Spec2Model ----
(***************************************************************************)
(* A model of upload.py: the gallery insertion into wiki markup (lines     *)
(* 185-224), the image re-compression loop (lines 93-111) and the row      *)
(* loop with its per-type number counter (lines 52-224).                   *)
(*                                                                         *)
(* Page text is a sequence of tokens.  A token is one character of the     *)
(* markup that the regular expressions look at ("=", " ", "\n") or an      *)
(* atomic chunk without whitespace at its ends and without "=": a label    *)
(* word, the literal tags "<gallery>" and "</gallery>", a gallery line.    *)
(* Offsets are Python offsets (0-based, half-open) counted in tokens.      *)
(***************************************************************************)
EXTENDS Integers, Sequences, FiniteSets, TLC

VARIABLES
    \* --- gallery insertion (lines 185-224)
    text,        \* the wiki page's text, page.text()
    orig,        \* the page's text before the first insertion (history)
    before,      \* the page's text read by the last insertion (history)
    label,       \* asset_type of the insertions, as tokens
    hist,        \* the new_entry lines saved so far, in call order (history)
    result,      \* outcome of the last insertion
    \* --- image normalisation (lines 93-111)
    inSize,      \* the decoded image's <<width, height>>
    img,         \* img.size
    thumb,       \* img.size right after img.thumbnail (history)
    prev,        \* img.size before the last resize (history)
    scale,       \* the float scale, in units of 2^-56
    bufSize,     \* buffer.tell()
    retries,     \* iterations of the while loop so far
    imgPc,       \* position in lines 93-118
    \* --- row loop (lines 47-224)
    upload_records, content_records, type_map, type_map0, rowNo,
    statusLog,   \* per row: the <<status, reason>> written to columns 7 and 8, in order
    assigned,    \* per row: the filename of line 82, or "" when not reached
    effects,     \* per row: the external calls made (fetch, upload, save)
    site,        \* the wiki page texts, by page name
    sheetNumber  \* column 2 of the Content sheet, by content row

patchVars == <<text, orig, before, label, hist, result>>
imgVars   == <<inSize, img, thumb, prev, scale, bufSize, retries, imgPc>>
rowVars   == <<upload_records, content_records, type_map, type_map0, rowNo,
               statusLog, assigned, effects, site, sheetNumber>>
vars      == <<patchVars, imgVars, rowVars>>

(***************************************************************************)
(* Python helpers                                                          *)
(***************************************************************************)
\* s[a:b]
Slice(s, a, b) == SubSeq(s, a + 1, b)

\* s[a:]
SliceFrom(s, a) == SubSeq(s, a + 1, Len(s))

\* \s of the re module, on the tokens of the model
IsSpace(t) == t \in {" ", "\n"}

\* str.lower() on the label words of the model (re.IGNORECASE compares
\* case-folded characters; the other tokens hold no letter a label holds)
Lower(t) ==
    CASE t = "Outfits" -> "outfits"
      [] t = "Hair"    -> "hair"
      [] t = "Hold"    -> "hold"
      [] OTHER         -> t

\* number of consecutive tokens of s from offset p on that satisfy \s / "="
RECURSIVE SpaceRun(_, _)
SpaceRun(s, p) ==
    IF p < Len(s) /\ IsSpace(s[p + 1]) THEN 1 + SpaceRun(s, p + 1) ELSE 0

RECURSIVE EqRun(_, _)
EqRun(s, p) ==
    IF p < Len(s) /\ s[p + 1] = "=" THEN 1 + EqRun(s, p + 1) ELSE 0

\* str.strip()
RECURSIVE LStrip(_)
LStrip(s) == IF s # <<>> /\ IsSpace(Head(s)) THEN LStrip(Tail(s)) ELSE s

RECURSIVE RStrip(_)
RStrip(s) ==
    IF s # <<>> /\ IsSpace(s[Len(s)]) THEN RStrip(SubSeq(s, 1, Len(s) - 1)) ELSE s

Strip(s) == RStrip(LStrip(s))

(***************************************************************************)
(* Lines 191-197: the two lookups                                          *)
(***************************************************************************)
\* the escaped label matches literally at offset p, ignoring case
LitAt(s, p, lit) ==
    /\ p + Len(lit) <= Len(s)
    /\ \A k \in 1..Len(lit) : Lower(s[p + k]) = Lower(lit[k])

\* \s*==+ matched at offset p: the end offset, or -1.  Both stars are greedy
\* and "=" is no whitespace, so the match takes both runs whole.
TailEnd(s, p) ==
    LET q == p + SpaceRun(s, p)
        n == EqRun(s, q)
    IN  IF n >= 2 THEN q + n ELSE -1

\* ==+\s*<label>\s*==+ matched at offset i: the end offset, or -1.  The
\* label may itself start with whitespace, so \s* gives back as many tokens
\* as the literal needs: b is the number of whitespace tokens \s* keeps.
HeadingEnd(s, i, lit) ==
    LET a  == EqRun(s, i)
        w  == SpaceRun(s, i + a)
        bs == {b \in 0..w : /\ LitAt(s, i + a + b, lit)
                            /\ TailEnd(s, i + a + b + Len(lit)) # -1}
    IN  IF a < 2 \/ bs = {} THEN -1
        ELSE LET b == CHOOSE x \in bs : \A y \in bs : y <= x
             IN  TailEnd(s, i + a + b + Len(lit))

\* re.search(rf"(==+\s*{re.escape(asset_type)}\s*==+)", text, re.IGNORECASE):
\* <<start, end>> of the leftmost match, or <<-1, -1>>
SectionMatch(s, lit) ==
    LET starts == {i \in 0..Len(s) : HeadingEnd(s, i, lit) # -1}
    IN  IF starts = {} THEN <<-1, -1>>
        ELSE LET i == CHOOSE x \in starts : \A y \in starts : x <= y
             IN  <<i, HeadingEnd(s, i, lit)>>

\* re.search(r"<gallery>(.*?)</gallery>", rest, re.DOTALL).span(1):
\* <<g_start, g_end>> of the leftmost, shortest match, or <<-1, -1>>
GalleryMatch(rest) ==
    LET opens == {j \in 1..Len(rest) :
                     /\ rest[j] = "<gallery>"
                     /\ \E k \in (j + 1)..Len(rest) : rest[k] = "</gallery>"}
    IN  IF opens = {} THEN <<-1, -1>>
        ELSE LET j == CHOOSE x \in opens : \A y \in opens : x <= y
                 closes == {k \in (j + 1)..Len(rest) : rest[k] = "</gallery>"}
                 k == CHOOSE x \in closes : \A y \in closes : x <= y
             IN  <<j, k - 1>>

(***************************************************************************)
(* Lines 120-127 and 202: the caption and the gallery line                 *)
(***************************************************************************)
\* description, as tokens: "Made by <designer>", and the layer links when
\* the row has any (layer_links[:5])
Description(designer, layers) ==
    LET n == IF Len(layers) < 5 THEN Len(layers) ELSE 5
        RECURSIVE Links(_)
        Links(k) ==
            IF k > n THEN <<>>
            ELSE <<"\n", "[" \o ToString(k) \o "](" \o layers[k] \o ")">>
                 \o Links(k + 1)
    IN  <<"Made by " \o designer>>
        \o (IF n = 0 THEN <<>>
            ELSE <<"\n", "\n", "**Layer Images:**">> \o Links(1))

\* new_entry = f"\nFile:{filename}|{caption}"
NewEntry(filename, caption) ==
    <<"\n", "File:" \o filename \o "|" \o Head(caption)>> \o Tail(caption)

(***************************************************************************)
(* Lines 191-204: the insertion itself.  err is "section" for the          *)
(* exception of line 193, "gallery" for the one of line 197, else "none".  *)
(***************************************************************************)
\* line 201: g_text = gallery_match.group(1).strip()
GTextUnstripped(inner) == inner

GText(inner) == Strip(inner)

\* line 203
UpdatedGalleryPrepended(g_text, new_entry) == new_entry \o g_text

UpdatedGallery(g_text, new_entry) == g_text \o new_entry

\* line 204
SpliceWithoutOffset(t, g_offset, g_start, g_end, updated_gallery) ==
    Slice(t, 0, g_start) \o <<"\n">> \o updated_gallery \o <<"\n">>
        \o SliceFrom(t, g_end)

Splice(t, g_offset, g_start, g_end, updated_gallery) ==
    Slice(t, 0, g_offset + g_start) \o <<"\n">> \o updated_gallery \o <<"\n">>
        \o SliceFrom(t, g_offset + g_end)

InsertGalleryEntry(t, asset_type, new_entry) ==
    LET section_match == SectionMatch(t, asset_type)
        section_start == section_match[2]
        gallery_match == GalleryMatch(SliceFrom(t, section_start))
        g_text        == GText(Slice(SliceFrom(t, section_start),
                                     gallery_match[1], gallery_match[2]))
    IN  IF section_match[1] = -1 THEN [err |-> "section", new_text |-> t]
        ELSE IF gallery_match[1] = -1 THEN [err |-> "gallery", new_text |-> t]
        ELSE [err |-> "none",
              new_text |-> Splice(t, section_start, gallery_match[1],
                                  gallery_match[2],
                                  UpdatedGallery(g_text, new_entry))]

(***************************************************************************)
(* Python floats.  scale is an IEEE-754 double; every value it takes is a  *)
(* multiple of 2^-56, so it is kept as that multiple, a natural number     *)
(* below 2^76 written as four limbs of 19 bits, least significant first.   *)
(* An operation is computed exactly and then rounded to 53 significant     *)
(* bits, ties to even, as the hardware does.                               *)
(***************************************************************************)
Base == 2^19

\* the limbs s with carry c added, every limb brought into 0..Base-1
RECURSIVE Carry(_, _)
Carry(s, c) ==
    IF s = <<>> THEN <<>>
    ELSE LET v == Head(s) + c
         IN  <<v % Base>> \o Carry(Tail(s), v \div Base)

\* x - y and x * n (n a small natural), exact
BigSub(x, y) == Carry([k \in 1..4 |-> x[k] - y[k]], 0)

BigMul(x, n) == Carry([k \in 1..4 |-> x[k] * n], 0)

\* x > y
BigGt(x, y) ==
    \E k \in 1..4 : x[k] > y[k] /\ \A j \in (k + 1)..4 : x[j] = y[j]

\* number of bits of a limb, and of x
RECURSIVE Bits(_)
Bits(n) == IF n = 0 THEN 0 ELSE 1 + Bits(n \div 2)

BitLen(x) ==
    LET nz == {k \in 1..4 : x[k] # 0}
    IN  IF nz = {} THEN 0
        ELSE LET h == CHOOSE a \in nz : \A b \in nz : b <= a
             IN  19 * (h - 1) + Bits(x[h])

\* x rounded to 53 significant bits, round-half-to-even.  At most 14 bits are
\* dropped here (x < 2^67), all of them in the lowest limb.
Round53(x) ==
    LET d == BitLen(x) - 53
    IN  IF d <= 0 THEN x
        ELSE LET r    == x[1] % (2^d)
                 half == 2^(d - 1)
                 odd  == (x[1] \div (2^d)) % 2 = 1
                 up   == r > half \/ (r = half /\ odd)
             IN  Carry([x EXCEPT ![1] = x[1] - r], IF up THEN 2^d ELSE 0)

\* int(x): the whole part of x units of 2^-56
BigFloor(x) == x[4] * 2 + x[3] \div (2^18)

\* the doubles 1.0, 0.1 (0x1.999999999999ap-4) and 0.2 (0x1.999999999999ap-3)
FloatOne == <<0, 0, 2^18, 0>>

FloatTenth == <<104858, 209715, 26214, 0>>

FloatFifth == <<209716, 419430, 52428, 0>>

\* scale -= 0.1
ScaleDown(s) == Round53(BigSub(s, FloatTenth))

\* int(width * scale): the int is converted to a double (exact below 2^53),
\* the product is rounded to a double, int() truncates it
IntTimes(n, s) == BigFloor(Round53(BigMul(s, n)))

(***************************************************************************)
(* Lines 93-111: the image normalisation                                   *)
(***************************************************************************)
\* size_limit = 500 * 1024
size_limit == 500 * 1024

\* img.thumbnail((1024, 1024)), Pillow's Image.thumbnail: nothing when the
\* image fits; else the longer side becomes 1024 and the other one the
\* floor or the ceiling of its exact value, whichever keeps the aspect
\* ratio closer (the floor on a tie), and at least 1.  The comparisons of
\* Pillow's floats w/h, n/y, x/n are made on the exact fractions.
Abs(n) == IF n < 0 THEN -n ELSE n

Max2(a, b) == IF a >= b THEN a ELSE b

ThumbnailStretched(size, box) == <<box, box>>

ThumbnailSize(size, box) ==
    LET w == size[1]
        h == size[2]
        \* x = round_aspect(y * aspect, key = abs(aspect - n / y)), y = box
        fx == (box * w) \div h
        cx == IF (box * w) % h = 0 THEN fx ELSE fx + 1
        x  == IF Abs(w * box - fx * h) <= Abs(w * box - cx * h) THEN fx ELSE cx
        \* y = round_aspect(x / aspect, key = 0 if n == 0 else abs(aspect - x / n))
        fy == (box * h) \div w
        cy == IF (box * h) % w = 0 THEN fy ELSE fy + 1
        y  == IF fy = 0 \/ Abs(w * fy - box * h) * cy <= Abs(w * cy - box * h) * fy
              THEN fy ELSE cy
    IN  IF box >= w /\ box >= h THEN size
        ELSE IF h >= w THEN <<Max2(x, 1), box>>
        ELSE <<box, Max2(y, 1)>>

\* line 104: the size handed to img.resize
ResizeSize(current, s) ==
    <<IntTimes(current[1], s), IntTimes(current[2], s)>>

\* line 101: the loop condition
LoopCondition == bufSize > size_limit /\ BigGt(scale, FloatFifth)

\* buffer.tell() after img.save(buffer, format="PNG").  The encoder's output
\* is not a function of the dimensions alone (pixel content, and the chunks
\* Pillow copies from img.info, an ICC profile among them), so it is any of
\* these sizes: well under the budget, exactly the budget, one byte over.
BufSizes == {4 * 1024, size_limit, size_limit + 1}

\* the decoded image's dimensions
MaxInDim == 2000

InDims == {d \in {1, 3, 10, 100, 700, 1024, 1025} : d <= MaxInDim} \cup {MaxInDim}

\* line 94: img.thumbnail((1024, 1024))
MaxDimension == 1024

\* line 103: the image the retry resizes is the current one
ResizeFromThumbnail == thumb

ResizeFrom == img

InitImg ==
    /\ inSize \in InDims \X InDims
    /\ img = inSize
    /\ thumb = <<0, 0>>
    /\ prev = <<0, 0>>
    /\ scale = FloatOne
    /\ bufSize = 0
    /\ retries = 0
    /\ imgPc = "open"

\* lines 90-93 raise (the download fails, the bytes are no image): line 113
DecodeError ==
    /\ imgPc = "open"
    /\ imgPc' = "decode_error"
    /\ UNCHANGED <<inSize, img, thumb, prev, scale, bufSize, retries>>
    /\ UNCHANGED <<patchVars, rowVars>>

\* lines 93-100
Thumbnail ==
    /\ imgPc = "open"
    /\ img' = ThumbnailSize(inSize, MaxDimension)
    /\ thumb' = img'
    /\ prev' = img'
    /\ bufSize' \in BufSizes
    /\ scale' = FloatOne
    /\ imgPc' = "loop"
    /\ UNCHANGED <<inSize, retries>>
    /\ UNCHANGED <<patchVars, rowVars>>

\* lines 101-107, one iteration.  Image.resize raises ValueError ("height and
\* width must be > 0") for a size with a zero in it; img and buffer then
\* keep their values and line 113 catches.
Resize ==
    /\ imgPc = "loop"
    /\ LoopCondition
    /\ scale' = ScaleDown(scale)
    /\ retries' = retries + 1
    /\ LET size == ResizeSize(ResizeFrom, scale')
       IN  IF size[1] < 1 \/ size[2] < 1
           THEN /\ imgPc' = "resize_error"
                /\ UNCHANGED <<img, prev, bufSize>>
           ELSE /\ img' = size
                /\ prev' = img
                /\ bufSize' \in BufSizes
                /\ imgPc' = "loop"
    /\ UNCHANGED <<inSize, thumb>>
    /\ UNCHANGED <<patchVars, rowVars>>

\* lines 109-111: the loop has ended, the buffer is written out
SaveImage ==
    /\ imgPc = "loop"
    /\ ~LoopCondition
    /\ imgPc' = "saved"
    /\ UNCHANGED <<inSize, img, thumb, prev, scale, bufSize, retries>>
    /\ UNCHANGED <<patchVars, rowVars>>

(***************************************************************************)
(* Lines 185-205 and 219-224 on one page: the gallery step of a row        *)
(***************************************************************************)
MaxSegs == 4

MaxInserts == 2

\* the pieces page texts are made of: the heading lines "=== outfits ==" and
\* "==Hair==", the two tags, a newline, an entry
Segments ==
    { <<"=", "=", "=", " ", "outfits", " ", "=", "=", "\n">>,
      <<"=", "=", "Hair", "=", "=", "\n">>,
      <<"<gallery>">>,
      <<"</gallery>">>,
      <<"\n">>,
      <<"File:A.png|first">> }

RECURSIVE TextsOf(_)
TextsOf(n) ==
    IF n = 0 THEN {<<>>}
    ELSE LET shorter == TextsOf(n - 1)
         IN  shorter \cup {t \o g : t \in shorter, g \in Segments}

ExampleText ==
    <<"=", "=", " ", "Outfits", " ", "=", "=", "\n", "<gallery>", "\n",
      "File:A.png|first", "\n", "</gallery>">>

ExampleLine == <<"\n", "File:B.png|second">>

ExampleResult ==
    <<"=", "=", " ", "Outfits", " ", "=", "=", "\n", "<gallery>", "\n",
      "File:A.png|first", "\n", "File:B.png|second", "\n", "</gallery>">>

\* a page with text before the heading and after the gallery, and a "Hair"
\* section before the "Outfits" one
FullPage ==
    <<"Intro", "\n", "=", "=", " ", "Hair", " ", "=", "=", "\n", "<gallery>", "\n",
      "File:H.png|hair", "\n", "</gallery>", "\n">>
        \o ExampleText \o <<"\n", "Footer">>

PageTexts == TextsOf(MaxSegs) \cup {ExampleText, FullPage}

Labels == {<<"Outfits">>, <<"Hair">>}

\* the filenames and captions of the inserted lines
PatchFilenames == {"B.png"}

PatchCaptions == {<<"second">>, Description("Mia", <<"L1">>)}

InitPatch ==
    /\ text \in PageTexts
    /\ orig = text
    /\ before = text
    /\ label \in Labels
    /\ hist = <<>>
    /\ result = "none"

\* lines 188-193: the heading is missing, line 219 catches, nothing is saved
InsertMissingHeading ==
    /\ Len(hist) < MaxInserts
    /\ \E filename \in PatchFilenames, caption \in PatchCaptions :
         LET r == InsertGalleryEntry(text, label, NewEntry(filename, caption))
         IN  /\ r.err = "section"
             /\ result' = "Missing heading"
             /\ before' = text
             /\ UNCHANGED <<text, orig, label, hist>>
    /\ UNCHANGED <<imgVars, rowVars>>

\* lines 188-197: no gallery is found, line 219 catches, nothing is saved
InsertNoGallery ==
    /\ Len(hist) < MaxInserts
    /\ \E filename \in PatchFilenames, caption \in PatchCaptions :
         LET r == InsertGalleryEntry(text, label, NewEntry(filename, caption))
         IN  /\ r.err = "gallery"
             /\ result' = "No gallery"
             /\ before' = text
             /\ UNCHANGED <<text, orig, label, hist>>
    /\ UNCHANGED <<imgVars, rowVars>>

\* lines 188-205: page.save(new_text)
InsertSaved ==
    /\ Len(hist) < MaxInserts
    /\ \E filename \in PatchFilenames, caption \in PatchCaptions :
         LET new_entry == NewEntry(filename, caption)
             r == InsertGalleryEntry(text, label, new_entry)
         IN  /\ r.err = "none"
             /\ result' = "saved"
             /\ before' = text
             /\ text' = r.new_text
             /\ hist' = Append(hist, new_entry)
             /\ UNCHANGED <<orig, label>>
    /\ UNCHANGED <<imgVars, rowVars>>

(***************************************************************************)
(* Lines 47-224: the row loop.  A cell is a sequence of tokens, so that    *)
(* strip() and the heading search see its whitespace.  The download and    *)
(* normalisation of lines 88-111, the upload of lines 131-176 and the      *)
(* spreadsheet call of line 213 are outcomes taken nondeterministically.   *)
(***************************************************************************)
MaxRows == 2

\* "".join(cell)
RECURSIVE Join(_)
Join(cell) == IF cell = <<>> THEN "" ELSE Head(cell) \o Join(Tail(cell))

\* the Upload sheet's rows: Process is empty or " Hold ", Type is "Hair" or
\* " Hair"
RowKinds ==
    [Process : {<<>>, <<" ", "Hold", " ">>},
     Type    : {<<"Hair">>, <<" ", "Hair">>},
     Page    : {"Wardrobe"}]

\* the Content sheets: Number is <<n>> for a cell that holds the int n and
\* <<>> for an empty cell (get_all_records gives "" there)
ContentSheets ==
    { <<[Type |-> <<"Hair">>, Number |-> <<1>>]>>,
      <<[Type |-> <<" ", "Hair">>, Number |-> <<1>>]>>,
      <<[Type |-> <<"Hair">>, Number |-> <<>>]>>,
      <<[Type |-> <<" ", "Hair">>, Number |-> <<2>>],
        [Type |-> <<"Hair">>, Number |-> <<5>>]>> }

\* the page's text before the run: "== Hair ==" with an empty gallery, or
\* "==Hair==" with no gallery
RowPages ==
    { <<"=", "=", " ", "Hair", " ", "=", "=", "\n", "<gallery>", "\n", "</gallery>">>,
      <<"=", "=", "Hair", "=", "=", "\n">> }

\* isinstance(row["Number"], int)
IsInt(v) == Len(v) = 1

\* lines 52-55: the last row of a type wins, rows without an int are left out
TypeMap(records) ==
    LET rows == {r \in 1..Len(records) : IsInt(records[r].Number)}
        keys == {records[r].Type : r \in rows}
    IN  [t \in keys |->
            LET last == CHOOSE r \in rows :
                            /\ records[r].Type = t
                            /\ \A q \in rows : records[q].Type = t => q <= r
            IN  records[last].Number[1]]

\* line 61: row.get("Process", "").strip().lower()
Process(row) == Join([k \in 1..Len(Strip(row.Process)) |-> Lower(Strip(row.Process)[k])])

\* line 62
Skipped(row) == Process(row) \in {"successful", "skip", "hold"}

\* line 82
Filename(asset_type, number) == Join(asset_type) \o ToString(number) \o ".png"

\* line 211: the Content rows the counter loop stops at
CounterRows(asset_type) ==
    {r \in 1..Len(content_records) : Strip(content_records[r].Type) = asset_type}

InitRows ==
    /\ upload_records \in [1..MaxRows -> RowKinds]
    /\ content_records \in ContentSheets
    /\ type_map = TypeMap(content_records)
    /\ type_map0 = type_map
    /\ rowNo = 1
    /\ statusLog = [r \in 1..MaxRows |-> <<>>]
    /\ assigned = [r \in 1..MaxRows |-> ""]
    /\ effects = [r \in 1..MaxRows |-> {}]
    /\ site \in [{"Wardrobe"} -> RowPages]
    /\ sheetNumber = [r \in 1..Len(content_records) |-> content_records[r].Number]

Row == upload_records[rowNo]

\* lines 80-82, for the rows that get that far
Number == type_map[Row.Type]

\* lines 120-127 and 202, with the row's designer and no layers
RowEntry == NewEntry(Filename(Row.Type, Number), Description("Mia", <<>>))

\* lines 188-204
RowInsert == InsertGalleryEntry(site[Row.Page], Row.Type, RowEntry)

\* lines 60-64
RowSkip ==
    /\ rowNo <= Len(upload_records)
    /\ Skipped(Row)
    /\ rowNo' = rowNo + 1
    /\ UNCHANGED <<upload_records, content_records, type_map, type_map0,
                   statusLog, assigned, effects, site, sheetNumber>>
    /\ UNCHANGED <<patchVars, imgVars>>

\* lines 73-78
RowNoNumber ==
    /\ rowNo <= Len(upload_records)
    /\ ~Skipped(Row)
    /\ Row.Type \notin DOMAIN type_map
    /\ statusLog' = [statusLog EXCEPT ![rowNo] = Append(@, <<"Failed", "No number found for type">>)]
    /\ rowNo' = rowNo + 1
    /\ UNCHANGED <<upload_records, content_records, type_map, type_map0,
                   assigned, effects, site, sheetNumber>>
    /\ UNCHANGED <<patchVars, imgVars>>

\* lines 80-118: the download or the normalisation raises
RowImageError ==
    /\ rowNo <= Len(upload_records)
    /\ ~Skipped(Row)
    /\ Row.Type \in DOMAIN type_map
    /\ assigned' = [assigned EXCEPT ![rowNo] = Filename(Row.Type, Number)]
    /\ effects' = [effects EXCEPT ![rowNo] = {"fetch"}]
    /\ statusLog' = [statusLog EXCEPT ![rowNo] = Append(@, <<"Failed", "Image error">>)]
    /\ rowNo' = rowNo + 1
    /\ UNCHANGED <<upload_records, content_records, type_map, type_map0,
                   site, sheetNumber>>
    /\ UNCHANGED <<patchVars, imgVars>>

\* lines 80-183: the upload raises or answers with an error
RowUploadError ==
    /\ rowNo <= Len(upload_records)
    /\ ~Skipped(Row)
    /\ Row.Type \in DOMAIN type_map
    /\ assigned' = [assigned EXCEPT ![rowNo] = Filename(Row.Type, Number)]
    /\ effects' = [effects EXCEPT ![rowNo] = {"fetch", "upload"}]
    /\ statusLog' = [statusLog EXCEPT ![rowNo] = Append(@, <<"Failed", "Upload error">>)]
    /\ rowNo' = rowNo + 1
    /\ UNCHANGED <<upload_records, content_records, type_map, type_map0,
                   site, sheetNumber>>
    /\ UNCHANGED <<patchVars, imgVars>>

\* lines 80-197 and 219-224: a lookup fails, nothing is saved
RowGalleryError ==
    /\ rowNo <= Len(upload_records)
    /\ ~Skipped(Row)
    /\ Row.Type \in DOMAIN type_map
    /\ RowInsert.err # "none"
    /\ assigned' = [assigned EXCEPT ![rowNo] = Filename(Row.Type, Number)]
    /\ effects' = [effects EXCEPT ![rowNo] = {"fetch", "upload"}]
    /\ statusLog' = [statusLog EXCEPT ![rowNo] = Append(@, <<"Failed", "Gallery error">>)]
    /\ rowNo' = rowNo + 1
    /\ UNCHANGED <<upload_records, content_records, type_map, type_map0,
                   site, sheetNumber>>
    /\ UNCHANGED <<patchVars, imgVars>>

\* lines 80-217: the page is saved, the row is marked Successful, and the
\* counter of the first Content row line 211 accepts is incremented
RowSuccessful ==
    /\ rowNo <= Len(upload_records)
    /\ ~Skipped(Row)
    /\ Row.Type \in DOMAIN type_map
    /\ RowInsert.err = "none"
    /\ assigned' = [assigned EXCEPT ![rowNo] = Filename(Row.Type, Number)]
    /\ effects' = [effects EXCEPT ![rowNo] = {"fetch", "upload", "save"}]
    /\ site' = [site EXCEPT ![Row.Page] = RowInsert.new_text]
    /\ statusLog' = [statusLog EXCEPT ![rowNo] = Append(@, <<"Successful", "">>)]
    /\ LET found == CounterRows(Row.Type)
       IN  IF found = {}
           THEN UNCHANGED <<type_map, sheetNumber>>
           ELSE LET r == CHOOSE x \in found : \A y \in found : x <= y
                    new_num == type_map[Row.Type] + 1
                IN  /\ sheetNumber' = [sheetNumber EXCEPT ![r] = <<new_num>>]
                    /\ type_map' = [type_map EXCEPT ![Row.Type] = new_num]
    /\ rowNo' = rowNo + 1
    /\ UNCHANGED <<upload_records, content_records, type_map0>>
    /\ UNCHANGED <<patchVars, imgVars>>

\* lines 80-224: as above up to line 212, then content_sheet.update_cell of
\* line 213 raises; line 219 catches and writes Failed over Successful
RowCounterWriteError ==
    /\ rowNo <= Len(upload_records)
    /\ ~Skipped(Row)
    /\ Row.Type \in DOMAIN type_map
    /\ RowInsert.err = "none"
    /\ CounterRows(Row.Type) # {}
    /\ assigned' = [assigned EXCEPT ![rowNo] = Filename(Row.Type, Number)]
    /\ effects' = [effects EXCEPT ![rowNo] = {"fetch", "upload", "save"}]
    /\ site' = [site EXCEPT ![Row.Page] = RowInsert.new_text]
    /\ statusLog' = [statusLog EXCEPT ![rowNo] = @ \o <<<<"Successful", "">>, <<"Failed", "Gallery error">>>>]
    /\ rowNo' = rowNo + 1
    /\ UNCHANGED <<upload_records, content_records, type_map, type_map0,
                   sheetNumber>>
    /\ UNCHANGED <<patchVars, imgVars>>

(***************************************************************************)
(* The specifications                                                      *)
(***************************************************************************)
IdlePatch ==
    /\ text = <<>> /\ orig = <<>> /\ before = <<>> /\ label = <<>>
    /\ hist = <<>> /\ result = "none"

IdleImg ==
    /\ inSize = <<0, 0>> /\ img = <<0, 0>> /\ thumb = <<0, 0>> /\ prev = <<0, 0>>
    /\ scale = FloatOne /\ bufSize = 0 /\ retries = 0 /\ imgPc = "idle"

IdleRows ==
    /\ upload_records = <<>> /\ content_records = <<>>
    /\ type_map = <<>> /\ type_map0 = <<>> /\ rowNo = 1
    /\ statusLog = <<>> /\ assigned = <<>> /\ effects = <<>>
    /\ site = <<>> /\ sheetNumber = <<>>

\* the gallery step on one page
NextPatch == InsertMissingHeading \/ InsertNoGallery \/ InsertSaved

InitPatchRun == InitPatch /\ IdleImg /\ IdleRows

SpecPatch == InitPatchRun /\ [][NextPatch]_vars

\* the image normalisation of one row
NextImg == DecodeError \/ Thumbnail \/ Resize \/ SaveImage

InitImgRun == InitImg /\ IdlePatch /\ IdleRows

SpecImg == InitImgRun /\ [][NextImg]_vars

\* the row loop
NextRows ==
    \/ RowSkip \/ RowNoNumber \/ RowImageError \/ RowUploadError
    \/ RowGalleryError \/ RowSuccessful \/ RowCounterWriteError

InitRowsRun == InitRows /\ IdlePatch /\ IdleImg

SpecRows == InitRowsRun /\ [][NextRows]_vars

(***************************************************************************)
(* Properties of the gallery insertion (SpecPatch)                         *)
(***************************************************************************)
StartsWith(s, p) == Len(p) <= Len(s) /\ SubSeq(s, 1, Len(p)) = p

EndsWith(s, p) == Len(p) <= Len(s) /\ SubSeq(s, Len(s) - Len(p) + 1, Len(s)) = p

\* the gallery block the lookups of lines 191-197 locate in t: the offset
\* behind its opening tag and the offset of its closing tag
GalleryBlock(t, lit) ==
    LET section_start == SectionMatch(t, lit)[2]
        span == GalleryMatch(SliceFrom(t, section_start))
    IN  [open_end |-> section_start + span[1], close_start |-> section_start + span[2]]

Inner(t, lit) == Slice(t, GalleryBlock(t, lit).open_end, GalleryBlock(t, lit).close_start)

\* the lines of s, and its entries: the lines that are not blank, trimmed
RECURSIVE SplitLines(_)
SplitLines(s) ==
    IF s = <<>> THEN << <<>> >>
    ELSE LET rest == SplitLines(Tail(s))
         IN  IF Head(s) = "\n" THEN << <<>> >> \o rest
             ELSE << <<Head(s)>> \o Head(rest) >> \o Tail(rest)

NotBlank(line) == line # <<>>

Entries(s) ==
    LET lines == SplitLines(s)
    IN  SelectSeq([k \in 1..Len(lines) |-> Strip(lines[k])], NotBlank)

RECURSIVE EntriesOfAll(_)
EntriesOfAll(lines) ==
    IF lines = <<>> THEN <<>> ELSE Entries(Head(lines)) \o EntriesOfAll(Tail(lines))

\* C1: after an insertion that was saved, the page starts with the text
\* it had up to and including the located block's <gallery> tag and ends
\* with the text it had from that block's </gallery> tag on.
C1_FrameUnchanged ==
    result = "saved" =>
        LET g == GalleryBlock(before, label)
        IN  /\ StartsWith(text, Slice(before, 0, g.open_end))
            /\ EndsWith(text, SliceFrom(before, g.close_start))
            /\ Len(text) > Len(before)

\* C1 witness: an insertion was saved on a page with text before the
\* heading, entries in the block and text behind the closing tag.
C1_Witness ==
    /\ result = "saved"
    /\ SectionMatch(before, label)[1] > 0
    /\ Inner(before, label) # <<>>
    /\ GalleryBlock(before, label).close_start + 1 < Len(before)

\* the section of the heading that ends at offset from: up to the next
\* heading of any label, or the end of the text
SectionEnd(t, from) ==
    LET heads == {i \in from..Len(t) : \E lit \in Labels : HeadingEnd(t, i, lit) # -1}
    IN  IF heads = {} THEN Len(t)
        ELSE CHOOSE i \in heads : \A j \in heads : i <= j

HeadingExists(t, lit) == SectionMatch(t, lit)[1] # -1

\* a <gallery> ... </gallery> block opens inside the section of lit's heading
GalleryInSection(t, lit) ==
    LET section_start == SectionMatch(t, lit)[2]
    IN  \E j \in section_start..(SectionEnd(t, section_start) - 1) :
            /\ t[j + 1] = "<gallery>"
            /\ \E k \in (j + 1)..(Len(t) - 1) : t[k + 1] = "</gallery>"

\* C2: an insertion fails with the missing-heading error when no heading
\* matches the label, and with the no-gallery error when the heading is
\* there but no gallery block opens before the next heading or the end of
\* the text; in both cases the page is not written.
C2_LookupErrors ==
    result # "none" =>
        /\ ~HeadingExists(before, label)
               => result = "Missing heading" /\ text = before
        /\ HeadingExists(before, label) /\ ~GalleryInSection(before, label)
               => result = "No gallery" /\ text = before

\* C3: after the saved insertions of hist the located block holds the
\* entries it held at first, in their order, followed by the inserted lines
\* in call order, duplicates kept; and the example of the specification
\* gives the result stated there.
C3_AppendOnly ==
    /\ hist # <<>> =>
           Entries(Inner(text, label)) = Entries(Inner(orig, label)) \o EntriesOfAll(hist)
    /\ (orig = ExampleText /\ label = <<"Outfits">> /\ hist = <<ExampleLine>>)
           => text = ExampleResult

\* C3 witness: the example's line was inserted twice into the example's page.
C3_Witness ==
    /\ orig = ExampleText
    /\ hist = <<ExampleLine, ExampleLine>>
    /\ Len(Entries(Inner(text, label))) = 3

\* C4 as stated: when the located block was empty or all whitespace, the
\* new entry is the only entry and exactly one newline stands between the
\* <gallery> tag and the entry.
C4_SingleNewline ==
    (result = "saved" /\ Strip(Inner(before, label)) = <<>>) =>
        LET inner == Inner(text, label)
        IN  /\ Entries(inner) = Entries(hist[Len(hist)])
            /\ inner[1] = "\n"
            /\ ~IsSpace(inner[2])

\* C4 as amended: when the located block was empty or all whitespace, the
\* new entry is the only entry and the block's content is a newline, the
\* new line (which starts with a newline of its own) and a newline: two
\* newlines, one blank line, stand between the <gallery> tag and the entry.
C4_BlankLineBeforeEntry ==
    (result = "saved" /\ Strip(Inner(before, label)) = <<>>) =>
        LET inner == Inner(text, label)
        IN  /\ Entries(inner) = Entries(hist[Len(hist)])
            /\ inner = <<"\n">> \o hist[Len(hist)] \o <<"\n">>
            /\ inner[1] = "\n" /\ inner[2] = "\n"
            /\ ~IsSpace(inner[3])

\* C4 witness: an insertion was saved into a block that held only a newline.
C4_Witness ==
    /\ result = "saved"
    /\ Inner(before, label) = <<"\n">>

(***************************************************************************)
(* Properties of the image normalisation (SpecImg)                         *)
(***************************************************************************)
\* C5: when the first encoding was over the budget (the loop was entered),
\* the loop ends, the buffer is written out, and then its size is within the
\* budget or scale is exactly the double 0.2.
C5_BudgetOrMinScale ==
    retries >= 1 =>
        /\ imgPc # "resize_error"
        /\ imgPc = "saved" => (bufSize <= size_limit \/ scale = FloatFifth)

\* C6: neither dimension ever grows: the thumbnail is within the decoded
\* size, every resize is within the size before it, and so the current size
\* is within the decoded one.
C6_NeverGrows ==
    imgPc \notin {"open", "idle", "decode_error"} =>
        /\ thumb[1] <= inSize[1] /\ thumb[2] <= inSize[2]
        /\ img[1] <= prev[1] /\ img[2] <= prev[2]
        /\ prev[1] <= thumb[1] /\ prev[2] <= thumb[2]
        /\ img[1] <= inSize[1] /\ img[2] <= inSize[2]

\* C6 witness: a decoded image larger than the box was downscaled and then
\* resized twice.
C6_Witness ==
    /\ retries = 2
    /\ imgPc = "loop"
    /\ thumb[1] < inSize[1]
    /\ img[1] < prev[1] /\ prev[1] < thumb[1]

\* n / 10 of a dimension, truncated, n retries after the thumbnail: each
\* retry takes (10 - k) / 10 of what the retry before it left
RECURSIVE Chained(_, _)
Chained(d, n) ==
    IF n = 0 THEN d ELSE (Chained(d, n - 1) * (10 - n)) \div 10

\* C7: after n retries the dimensions are the thumbnail's dimensions taken
\* times 0.9, 0.8, ... in turn, each product truncated (not the thumbnail's
\* dimensions times the current scale), and the scale is 1.0 less n tenths.
C7_CumulativeScale ==
    imgPc \in {"loop", "saved"} =>
        /\ img = <<Chained(thumb[1], retries), Chained(thumb[2], retries)>>
        /\ IntTimes(10, scale) = 10 - retries

\* C7 witness: three retries were made, and the size differs from the
\* thumbnail's size times the current scale.
C7_Witness ==
    /\ retries = 3
    /\ imgPc = "loop"
    /\ img # ResizeSize(thumb, scale)

(***************************************************************************)
(* Properties of the row loop (SpecRows)                                   *)
(***************************************************************************)
Done == 1..(rowNo - 1)

\* the status a row shows in the sheet: the last one written
FinalStatus(r) ==
    IF statusLog[r] = <<>> THEN "" ELSE statusLog[r][Len(statusLog[r])][1]

\* C8: the counter of every type is its first value plus the number of rows
\* of that type marked Successful so far.
C8_CounterCountsSuccesses ==
    \A t \in DOMAIN type_map :
        type_map[t] = type_map0[t]
            + Cardinality({r \in Done : /\ upload_records[r].Type = t
                                        /\ FinalStatus(r) = "Successful"})

\* C9: a row whose Process is successful, skip or hold gets no status and
\* causes no fetch, upload or page write; every other row gets exactly one
\* status written.
C9_OneOutcomePerRow ==
    \A r \in Done :
        IF Skipped(upload_records[r])
        THEN statusLog[r] = <<>> /\ effects[r] = {}
        ELSE Len(statusLog[r]) = 1

\* C10: no two rows marked Successful were given the same filename.
C10_DistinctFilenames ==
    \A r1 \in Done : \A r2 \in Done :
        (r1 # r2 /\ FinalStatus(r1) = "Successful" /\ FinalStatus(r2) = "Successful")
            => assigned[r1] # assigned[r2]

====
